---------------------------- MODULE Spec2Model ----------------------------
(***************************************************************************)
(* Model of frontend/src/charts/MedalLineChart.jsx: the two React          *)
(* components MedalLineChart (parallel-coordinates line chart of medals)   *)
(* and GDPStreamGraph (stacked stream graph of GDP per capita).            *)
(*                                                                         *)
(* One component is mounted per behaviour (variable mounted).  A React     *)
(* state hook is a variable, an event handler is an action, and a          *)
(* useEffect is an action that fires while its name is in the set of       *)
(* effects React still has to run.  React flushes the effects of a render  *)
(* before it handles the next event, so the handlers are enabled only      *)
(* when no effect is pending.                                              *)
(*                                                                         *)
(* JavaScript values: undefined data is the empty tuple <<>> and loaded    *)
(* data is the 1-tuple <<rows>>; the year null/undefined is NoYear = 0,    *)
(* which JavaScript treats as falsy exactly like null.  A color is its     *)
(* index in the d3 palette.  Of the three medal metrics only Gold is       *)
(* carried: Silver and Bronze are copied by the same statements and no     *)
(* guard, sort or color reads them.                                        *)
(***************************************************************************)
EXTENDS Integers, Sequences, FiniteSets, TLC

---------------------------------------------------------------------------
(* Bounds of the enumerated inputs. *)

\* records per Olympic year in a medals feed
MaxRows == 2
\* records in a small GDP feed
MaxGdpRecords == 2
\* country options of the GDP multi-select the user works with
MaxOptions == 2

(* Sample values of the enumerated inputs. *)

\* country names in lexicographic (Array.prototype.sort) order
CountryNames == <<"CHN", "USA">>
\* the Olympic years of the medals feed
YearList == <<2016, 2021>>
\* gold-medal counts
Golds == {38, 39}
\* years of the GDP feed
GdpYears == {2000, 2001}
\* the "GDP per capita" field: <<>> is a missing metric (undefined)
GdpValues == {<<>>, <<5>>}
\* the countries of the wide GDP feed, in feed order
WideNames == <<"ARG", "AUS", "BRA", "CAN", "CHN", "DEU",
               "FRA", "GBR", "IND", "ITA", "JPN">>

(* Program constants. *)

\* useState(null): no year selected
NoYear == 0
\* d3.schemeCategory10 has ten colors
Category10 == 10
\* d3.schemeTableau10 has ten colors
Tableau10 == 10
\* .slice(0, 10): the default country set of the stream graph
DefaultCountries == 10

---------------------------------------------------------------------------
(* Sequence helpers (the JavaScript array methods the components call). *)

Range(s) == {s[i] : i \in DOMAIN s}

SeqsUpTo(S, n) == UNION {[1..k -> S] : k \in 0..n}

\* Array.prototype.indexOf, 1-based; 0 when absent
RECURSIVE IndexOf(_, _)
IndexOf(s, x) ==
  IF s = <<>> THEN 0
  ELSE IF Head(s) = x THEN 1
  ELSE LET r == IndexOf(Tail(s), x) IN IF r = 0 THEN 0 ELSE r + 1

\* [...new Set(s)] and s.filter((v, i, self) => self.indexOf(v) === i):
\* the distinct elements of s in first-seen order
RECURSIVE Unique(_)
Unique(s) ==
  IF s = <<>> THEN <<>>
  ELSE LET r == Unique(SubSeq(s, 1, Len(s) - 1))
           x == s[Len(s)]
       IN IF x \in Range(r) THEN r ELSE Append(r, x)

\* Array.prototype.slice(0, n)
Slice(s, n) == SubSeq(s, 1, IF Len(s) < n THEN Len(s) ELSE n)

\* Array.prototype.includes
Includes(s, x) == x \in Range(s)

---------------------------------------------------------------------------
(* Pure functions of MedalLineChart. *)

\* medalsData / gdpData is undefined until the query has succeeded
Undefined == <<>>
Defined(data) == data # Undefined
Rows(data) == IF Defined(data) THEN data[1] ELSE <<>>

\* s.sort((a, b) => b - a) on numbers: insertion into a descending sequence
RECURSIVE SortDescending(_)
SortDescending(s) ==
  IF s = <<>> THEN <<>>
  ELSE LET r == SortDescending(Tail(s))
           x == Head(s)
           k == Cardinality({i \in DOMAIN r : r[i] >= x})
       IN SubSeq(r, 1, k) \o <<x>> \o SubSeq(r, k + 1, Len(r))

\* mutant of DistinctYears: the comparator reversed (a - b)
RECURSIVE SortAscending(_)
SortAscending(s) ==
  IF s = <<>> THEN <<>>
  ELSE LET r == SortAscending(Tail(s))
           x == Head(s)
           k == Cardinality({i \in DOMAIN r : r[i] <= x})
       IN SubSeq(r, 1, k) \o <<x>> \o SubSeq(r, k + 1, Len(r))

DistinctYearsAscending(rows) ==
  SortAscending(Unique([i \in DOMAIN rows |-> rows[i].Year]))

\* [...new Set(medalsData.map((d) => d.Year))].sort((a, b) => b - a)
DistinctYears(rows) ==
  SortDescending(Unique([i \in DOMAIN rows |-> rows[i].Year]))

\* years[0]: undefined (NoYear) for an empty feed
MostRecentYear(rows) ==
  LET years == DistinctYears(rows)
  IN IF years = <<>> THEN NoYear ELSE years[1]

\* names.sort(): lexicographic, by the rank of the name in CountryNames
RECURSIVE SortNames(_)
SortNames(s) ==
  IF s = <<>> THEN <<>>
  ELSE LET r == SortNames(Tail(s))
           x == Head(s)
           k == Cardinality({i \in DOMAIN r :
                               IndexOf(CountryNames, r[i]) <= IndexOf(CountryNames, x)})
       IN SubSeq(r, 1, k) \o <<x>> \o SubSeq(r, k + 1, Len(r))

OfYear(rows, year) == SelectSeq(rows, LAMBDA d : d.Year = year)

\* the options of the country multi-select
AvailableCountries(rows, year) ==
  LET yearRows == OfYear(rows, year)
  IN SortNames(Unique([i \in DOMAIN yearRows |-> yearRows[i].Country]))

\* mutant of YearData: the country filter is never applied
YearDataUnfiltered(rows, year, applied) == OfYear(rows, year)

\* yearData: the records of the year, narrowed to the applied countries
\* when some are applied
YearData(rows, year, applied) ==
  LET yearData == OfYear(rows, year)
  IN IF Len(applied) > 0
     THEN SelectSeq(yearData, LAMBDA d : Includes(applied, d.Country))
     ELSE yearData

\* transformed: one row per record of yearData
Transformed(yearData) ==
  [i \in DOMAIN yearData |-> [name |-> yearData[i].Country, Gold |-> yearData[i].Gold]]

uniqueKeys == <<"Gold", "Silver", "Bronze">>

\* filteredData.slice().sort((a, b) => d3.ascending(a.Gold, b.Gold)):
\* a stable sort, ties keep the order of filteredData
RECURSIVE SortByGold(_)
SortByGold(s) ==
  IF s = <<>> THEN <<>>
  ELSE LET r == SortByGold(Tail(s))
           x == Head(s)
           k == Cardinality({i \in DOMAIN r : r[i].Gold < x.Gold})
       IN SubSeq(r, 1, k) \o <<x>> \o SubSeq(r, k + 1, Len(r))

\* d3.scaleOrdinal with an implicit domain: each unknown key is appended
\* to the domain in the order the scale is called
ScaleDomain(domain, calls) == Unique(domain \o calls)

\* the color the scale gives a key of its domain: range[i % range.length]
ScaleColor(domain, key, paletteSize) == (IndexOf(domain, key) - 1) % paletteSize

Names(points) == [i \in DOMAIN points |-> points[i].name]

EmptySurface == [svg |-> FALSE, paths |-> <<>>, axes |-> <<>>, legend |-> <<>>]

\* mutant of LineChart: the stroke is looked up by the Gold count
LineChartColorByGold(data, ks) ==
  LET sorted == SortByGold(data)
      golds == [i \in DOMAIN sorted |-> sorted[i].Gold]
      domain == ScaleDomain(<<>>, golds)
      legend == Unique(Names(data))
  IN [svg |-> TRUE,
      paths |-> [i \in DOMAIN sorted |->
                   [name |-> sorted[i].name,
                    color |-> ScaleColor(domain, sorted[i].Gold, Category10)]],
      axes |-> ks,
      legend |-> [i \in DOMAIN legend |->
                   [name |-> legend[i],
                    color |-> ScaleColor(domain, sorted[IndexOf(Names(sorted), legend[i])].Gold,
                                         Category10)]]]

\* what the render effect appends to #d3-chart after .html(""): one path
\* per row in ascending Gold order, one axis per key, one legend entry per
\* distinct name; color is a fresh ordinal scale called path by path
LineChart(data, ks) ==
  LET sorted == SortByGold(data)
      domain == ScaleDomain(<<>>, Names(sorted))
      legend == Unique(Names(data))
  IN [svg |-> TRUE,
      paths |-> [i \in DOMAIN sorted |->
                   [name |-> sorted[i].name,
                    color |-> ScaleColor(domain, sorted[i].name, Category10)]],
      axes |-> ks,
      legend |-> [i \in DOMAIN legend |->
                   [name |-> legend[i],
                    color |-> ScaleColor(domain, legend[i], Category10)]]]

---------------------------------------------------------------------------
(* Pure functions of GDPStreamGraph. *)

GdpRecords == [Year : GdpYears, Country : Range(CountryNames), GDP : GdpValues]

\* +d["GDP per capita"] || 0: a missing or zero metric becomes 0
GdpPerCapita(v) == IF v = <<>> THEN 0 ELSE IF v[1] = 0 THEN 0 ELSE v[1]

\* parsedData
Parsed(rows) ==
  [i \in DOMAIN rows |->
     [year |-> rows[i].Year, country |-> rows[i].Country,
      gdpPerCapita |-> GdpPerCapita(rows[i].GDP)]]

\* d3.index(parsedData, d => d.year, d => d.country) throws
\* Error("duplicate key") when two rows share year and country
DuplicateKey(parsed) ==
  \E i, j \in DOMAIN parsed :
     i < j /\ parsed[i].year = parsed[j].year /\ parsed[i].country = parsed[j].country

\* Array.from(new Set(parsedData.map(d => d.country)))
FeedCountries(rows) == Unique([i \in DOMAIN rows |-> rows[i].Country])

\* countries: the selection, or by default the first ten of the feed
Countries(selected, rows) ==
  IF Len(selected) > 0 THEN selected ELSE Slice(FeedCountries(rows), DefaultCountries)

\* the value accessor of the stack: countryData.get(key)?.gdpPerCapita || 0
StackValue(parsed, year, key) ==
  LET hits == SelectSeq(parsed, LAMBDA d : d.year = year /\ d.country = key)
  IN IF hits = <<>> THEN 0 ELSE hits[1].gdpPerCapita

\* what the effect appends to svgRef.current after .html(""): one area per
\* key of the stack and one legend entry per country, colored by the
\* ordinal scale whose domain is countries.  A series is its key with the
\* stacked value per year of the index; the wiggle offset and the
\* inside-out order move the bands, not their keys or colors.
StreamGraph(selected, rows) ==
  LET parsed == Parsed(rows)
      countries == Countries(selected, rows)
      years == Unique([i \in DOMAIN parsed |-> parsed[i].year])
  IN [svg |-> TRUE,
      paths |-> [i \in DOMAIN countries |->
                   [name |-> countries[i],
                    color |-> ScaleColor(countries, countries[i], Tableau10),
                    values |-> [k \in DOMAIN years |->
                                  StackValue(parsed, years[k], countries[i])]]],
      axes |-> <<"y", "x">>,
      legend |-> [i \in DOMAIN countries |->
                   [name |-> countries[i],
                    color |-> ScaleColor(countries, countries[i], Tableau10)]]]

\* the options of the Select: 'All' first, then one per country of the feed
All == "All"
SelectOptions(rows) == <<All>> \o FeedCountries(rows)

\* the onChange handler's new selectedCountries for the Select's new value
OnChangeCountries(selected) ==
  IF \E i \in DOMAIN selected : selected[i] = All THEN <<>> ELSE selected

---------------------------------------------------------------------------
(* The feeds the backend may return. *)

YearRows == [Country : Range(CountryNames), Gold : Golds]

\* the records of year y built from its rows
Tagged(y, rs) ==
  [i \in DOMAIN rs |-> [Year |-> y, Country |-> rs[i].Country, Gold |-> rs[i].Gold]]

\* the feed that lists, year by year, the rows chosen for each year
RECURSIVE FeedOf(_, _)
FeedOf(perYear, n) ==
  IF n = 0 THEN <<>> ELSE FeedOf(perYear, n - 1) \o Tagged(YearList[n], perYear[n])

\* up to MaxRows records per year; the line chart reads the feed only
\* through the year filter, so the feed is listed year by year
MedalFeeds ==
  {FeedOf(perYear, Len(YearList)) :
     perYear \in [DOMAIN YearList -> SeqsUpTo(YearRows, MaxRows)]}

\* one record per country for eleven countries: more than the default ten
WideFeed ==
  [i \in DOMAIN WideNames |-> [Year |-> 2000, Country |-> WideNames[i], GDP |-> <<5>>]]

GdpFeeds == SeqsUpTo(GdpRecords, MaxGdpRecords) \cup {WideFeed}

---------------------------------------------------------------------------
(* State. *)

VARIABLES
  mounted,            \* the component on the page
  isLoading, isError, \* the query status of the mounted component
  pending,            \* the effects React has yet to run
  thrown,             \* the error an effect threw ("" while none)
  medalsData,         \* MedalLineChart: data of useGetMedalsQuery
  selectedYear,
  selectedCountries,  \* the staged country selection
  appliedCountries,
  filteredData,
  keys,
  d3chart,            \* what hangs under #d3-chart
  gdpData,            \* GDPStreamGraph: data of useGetAllGDPPerCapitaQuery
  streamCountries,    \* selectedCountries of GDPStreamGraph
  selectValue,        \* the value the Select holds
  svgRef,             \* what hangs under svgRef.current
  executed,           \* history: the pipeline stages that have run
  lastEvent,          \* history: the last user event
  yearPicked,         \* history: the user has used the year selector
  kept                \* history: the first drawing of the chart

vars == <<mounted, isLoading, isError, pending, thrown, medalsData, selectedYear,
          selectedCountries, appliedCountries, filteredData, keys, d3chart,
          gdpData, streamCountries, selectValue, svgRef,
          executed, lastEvent, yearPicked, kept>>

medalVars == <<medalsData, selectedYear, selectedCountries, appliedCountries,
               filteredData, keys, d3chart>>
gdpVars == <<gdpData, streamCountries, selectValue, svgRef>>

Medal == "MedalLineChart"
Stream == "GDPStreamGraph"

\* the effects of a component, in source order
MedalEffects == {"year", "filter", "render"}
StreamEffects == {"stream"}

\* the early returns of the render function: a message replaces the chart
View ==
  IF isLoading THEN "loading"
  ELSE IF isError THEN "error"
  ELSE "chart"

\* the chart container is in the document only in the chart view
ChartMounted == View = "chart"

\* React handles an event once the effects of the last render have run,
\* and a component whose effect threw is unmounted
Idle == pending = {} /\ thrown = ""

Init ==
  /\ mounted \in {Medal, Stream}
  /\ isLoading = TRUE
  /\ isError = FALSE
  /\ pending = IF mounted = Medal THEN MedalEffects ELSE StreamEffects
  /\ thrown = ""
  /\ medalsData = Undefined
  /\ selectedYear = NoYear
  /\ selectedCountries = <<>>
  /\ appliedCountries = <<>>
  /\ filteredData = <<>>
  /\ keys = <<>>
  /\ d3chart = EmptySurface
  /\ gdpData = Undefined
  /\ streamCountries = <<>>
  /\ selectValue = <<>>
  /\ svgRef = EmptySurface
  /\ executed = {}
  /\ lastEvent = "none"
  /\ yearPicked = FALSE
  /\ kept = EmptySurface

---------------------------------------------------------------------------
(* The data source. *)

\* the query succeeds: data changes, so the effects that depend on it run
MedalsFetched ==
  /\ mounted = Medal /\ Idle /\ isLoading
  /\ \E feed \in MedalFeeds : medalsData' = <<feed>>
  /\ isLoading' = FALSE
  /\ pending' = {"year", "filter"}
  /\ UNCHANGED <<mounted, isError, thrown, selectedYear, selectedCountries,
                 appliedCountries, filteredData, keys, d3chart, gdpVars,
                 executed, lastEvent, yearPicked, kept>>

\* the query fails: data stays undefined
QueryFailed ==
  /\ Idle /\ isLoading
  /\ isLoading' = FALSE
  /\ isError' = TRUE
  /\ UNCHANGED <<mounted, pending, thrown, medalVars, gdpVars,
                 executed, lastEvent, yearPicked, kept>>

GdpFetched ==
  /\ mounted = Stream /\ Idle /\ isLoading
  /\ \E feed \in GdpFeeds : gdpData' = <<feed>>
  /\ isLoading' = FALSE
  /\ pending' = {"stream"}
  /\ UNCHANGED <<mounted, isError, thrown, medalVars, streamCountries, selectValue,
                 svgRef, executed, lastEvent, yearPicked, kept>>

---------------------------------------------------------------------------
(* The effects of MedalLineChart. *)

\* useEffect(..., [medalsData]): the year starts at the most recent year
YearInitEffect ==
  /\ thrown = "" /\ "year" \in pending
  /\ IF Defined(medalsData)
     THEN /\ selectedYear' = MostRecentYear(Rows(medalsData))
          /\ pending' = (pending \ {"year"}) \cup
                          (IF selectedYear' # selectedYear THEN {"filter"} ELSE {})
     ELSE /\ selectedYear' = selectedYear
          /\ pending' = pending \ {"year"}
  /\ UNCHANGED <<mounted, isLoading, isError, thrown, medalsData, selectedCountries,
                 appliedCountries, filteredData, keys, d3chart, gdpVars,
                 executed, lastEvent, yearPicked, kept>>

\* the guard of the filter effect: medalsData && selectedYear
MedalsReady(data, year) == Defined(data) /\ year # NoYear

\* useEffect(..., [medalsData, selectedYear, appliedCountries]): both
\* setters store a new array, so the render effect runs next
FilterEffect ==
  /\ thrown = "" /\ "filter" \in pending /\ "year" \notin pending
  /\ IF MedalsReady(medalsData, selectedYear)
     THEN /\ filteredData' =
               Transformed(YearData(Rows(medalsData), selectedYear, appliedCountries))
          /\ keys' = uniqueKeys
          /\ pending' = (pending \ {"filter"}) \cup {"render"}
          /\ executed' = executed \cup {"transform"}
     ELSE /\ pending' = pending \ {"filter"}
          /\ UNCHANGED <<filteredData, keys, executed>>
  /\ UNCHANGED <<mounted, isLoading, isError, thrown, medalsData, selectedYear,
                 selectedCountries, appliedCountries, d3chart, gdpVars,
                 lastEvent, yearPicked, kept>>

\* the early return of the render effect
NothingToDraw(data, ks) == Len(data) = 0 \/ Len(ks) = 0

\* useEffect(..., [filteredData, keys]): clear #d3-chart and draw, unless
\* there is nothing to draw; d3.select finds no element outside the chart
\* view.  kept takes the first drawing.
RenderEffect ==
  /\ thrown = "" /\ pending = {"render"}
  /\ pending' = {}
  /\ IF NothingToDraw(filteredData, keys)
     THEN UNCHANGED <<d3chart, executed, kept>>
     ELSE /\ executed' = executed \cup {"draw"}
          /\ IF ChartMounted
             THEN /\ d3chart' = LineChart(filteredData, keys)
                  /\ kept' = IF kept.svg THEN kept ELSE d3chart'
             ELSE UNCHANGED <<d3chart, kept>>
  /\ UNCHANGED <<mounted, isLoading, isError, thrown, medalsData, selectedYear,
                 selectedCountries, appliedCountries, filteredData, keys, gdpVars,
                 lastEvent, yearPicked>>

---------------------------------------------------------------------------
(* The controls of MedalLineChart. *)

\* the value attribute of a year option: the year in decimal digits
RECURSIVE Digits(_)
Digits(n) == IF n < 10 THEN <<n>> ELSE Append(Digits(n \div 10), n % 10)

\* Number(e.target.value)
RECURSIVE Number(_)
Number(ds) ==
  IF ds = <<>> THEN 0 ELSE Number(SubSeq(ds, 1, Len(ds) - 1)) * 10 + ds[Len(ds)]

\* availableYears: the options of the year selector
AvailableYears(rows) == DistinctYears(rows)

\* mutant of YearOnChange: the applied countries survive the change of year
YearOnChangeKeepsCountries ==
  /\ mounted = Medal /\ Idle /\ ChartMounted
  /\ \E i \in DOMAIN AvailableYears(Rows(medalsData)) :
       LET value == Digits(AvailableYears(Rows(medalsData))[i])
       IN /\ Number(value) # selectedYear
          /\ selectedYear' = Number(value)
  /\ pending' = {"filter"}
  /\ lastEvent' = "year"
  /\ yearPicked' = TRUE
  /\ UNCHANGED <<mounted, isLoading, isError, thrown, medalsData, selectedCountries,
                 appliedCountries, filteredData, keys, d3chart, gdpVars, executed, kept>>

\* the year selector's onChange: the user picks another year option
YearOnChange ==
  /\ mounted = Medal /\ Idle /\ ChartMounted
  /\ \E i \in DOMAIN AvailableYears(Rows(medalsData)) :
       LET value == Digits(AvailableYears(Rows(medalsData))[i])
       IN /\ Number(value) # selectedYear
          /\ selectedYear' = Number(value)
  /\ appliedCountries' = <<>>
  /\ pending' = {"filter"}
  /\ lastEvent' = "year"
  /\ yearPicked' = TRUE
  /\ UNCHANGED <<mounted, isLoading, isError, thrown, medalsData, selectedCountries,
                 filteredData, keys, d3chart, gdpVars, executed, kept>>

\* the options the multi-select shows selected: those named by its value
Shown(options, value) == SelectSeq(options, LAMBDA c : Includes(value, c))

\* Array.from(e.target.selectedOptions, option => option.value): the
\* selected options in document order
SelectedOptions(options, chosen) == SelectSeq(options, LAMBDA c : c \in chosen)

\* mutant of CountriesOnChange: the staged selection filters at once
CountriesOnChangeLive ==
  /\ mounted = Medal /\ Idle /\ ChartMounted
  /\ LET options == AvailableCountries(Rows(medalsData), selectedYear)
     IN \E chosen \in SUBSET Range(options) :
          /\ SelectedOptions(options, chosen) # Shown(options, selectedCountries)
          /\ selectedCountries' = SelectedOptions(options, chosen)
  /\ appliedCountries' = selectedCountries'
  /\ pending' = {"filter"}
  /\ lastEvent' = "stage"
  /\ UNCHANGED <<mounted, isLoading, isError, thrown, medalsData, selectedYear,
                 filteredData, keys, d3chart, gdpVars, executed, yearPicked, kept>>

\* the country multi-select's onChange: the user changes which of the
\* offered options are selected; no effect depends on the staged selection
CountriesOnChange ==
  /\ mounted = Medal /\ Idle /\ ChartMounted
  /\ LET options == AvailableCountries(Rows(medalsData), selectedYear)
     IN \E chosen \in SUBSET Range(options) :
          /\ SelectedOptions(options, chosen) # Shown(options, selectedCountries)
          /\ selectedCountries' = SelectedOptions(options, chosen)
  /\ lastEvent' = "stage"
  /\ UNCHANGED <<mounted, isLoading, isError, pending, thrown, medalsData, selectedYear,
                 appliedCountries, filteredData, keys, d3chart, gdpVars,
                 executed, yearPicked, kept>>

\* the Apply button's onClick: the staged selection becomes the applied one
ApplyOnClick ==
  /\ mounted = Medal /\ Idle /\ ChartMounted
  /\ appliedCountries' = selectedCountries
  /\ pending' = {"filter"}
  /\ lastEvent' = "apply"
  /\ UNCHANGED <<mounted, isLoading, isError, thrown, medalsData, selectedYear,
                 selectedCountries, filteredData, keys, d3chart, gdpVars,
                 executed, yearPicked, kept>>

---------------------------------------------------------------------------
(* GDPStreamGraph. *)

\* mutant of GdpReady: the effect does not wait for the data
GdpReadyAlways(data) == TRUE

\* the guard of the effect: if (!gdpData) return
GdpReady(data) == Defined(data)

\* useEffect(..., [gdpData, selectedCountries]): index the feed (which
\* throws on a duplicate key), stack the countries, clear svgRef.current
\* and draw.  kept takes the first drawing.
StreamEffect ==
  /\ thrown = "" /\ pending = {"stream"}
  /\ pending' = {}
  /\ IF ~GdpReady(gdpData)
     THEN UNCHANGED <<thrown, svgRef, executed, kept>>
     ELSE IF DuplicateKey(Parsed(Rows(gdpData)))
     THEN /\ thrown' = "duplicate key"
          /\ executed' = executed \cup {"transform"}
          /\ UNCHANGED <<svgRef, kept>>
     ELSE /\ executed' = executed \cup {"transform", "draw"}
          /\ thrown' = thrown
          /\ IF ChartMounted
             THEN /\ svgRef' = StreamGraph(streamCountries, Rows(gdpData))
                  /\ kept' = IF kept.svg THEN kept ELSE svgRef'
             ELSE UNCHANGED <<svgRef, kept>>
  /\ UNCHANGED <<mounted, isLoading, isError, medalVars, gdpData, streamCountries,
                 selectValue, lastEvent, yearPicked>>

\* the options the user works with: 'All' and the first country options
Offered(rows) == Slice(SelectOptions(rows), MaxOptions + 1)

\* the Select's onChange with its new value: 'All' clears the selection;
\* the setter stores a new array, so the effect runs
OnChange(selected) ==
  /\ selectValue' = selected
  /\ streamCountries' = OnChangeCountries(selected)
  /\ pending' = {"stream"}
  /\ lastEvent' = IF Includes(selected, All) THEN "all" ELSE "select"
  /\ UNCHANGED <<mounted, isLoading, isError, thrown, medalVars, gdpData, svgRef,
                 executed, yearPicked, kept>>

\* the user adds an option that is not selected yet
SelectOption ==
  /\ mounted = Stream /\ Idle /\ ChartMounted
  /\ \E o \in Range(Offered(Rows(gdpData))) \ Range(selectValue) :
       OnChange(Append(selectValue, o))

\* the user removes a selected option
RemoveOption ==
  /\ mounted = Stream /\ Idle /\ ChartMounted
  /\ \E o \in Range(selectValue) :
       OnChange(SelectSeq(selectValue, LAMBDA v : v # o))

---------------------------------------------------------------------------

Next ==
  \/ MedalsFetched
  \/ QueryFailed
  \/ GdpFetched
  \/ YearInitEffect
  \/ FilterEffect
  \/ RenderEffect
  \/ YearOnChange
  \/ CountriesOnChange
  \/ ApplyOnClick
  \/ StreamEffect
  \/ SelectOption
  \/ RemoveOption

Spec == Init /\ [][Next]_vars

---------------------------------------------------------------------------
(* Vocabulary of the properties. *)

\* the drawing surface of the mounted component
Surface == IF mounted = Medal THEN d3chart ELSE svgRef

\* how many entries of a drawing or rows of filteredData carry a name
CountNamed(entries, c) == Cardinality({i \in DOMAIN entries : entries[i].name = c})

NameSet(entries) == {entries[i].name : i \in DOMAIN entries}

\* the filter effect has run for the current year and applied countries
Filtered ==
  /\ mounted = Medal /\ Defined(medalsData) /\ selectedYear # NoYear
  /\ "year" \notin pending /\ "filter" \notin pending

\* the records of the feed that pass the year and applied-countries filter
InSubset(d) ==
  /\ d.Year = selectedYear
  /\ (appliedCountries = <<>> \/ d.Country \in Range(appliedCountries))

\* two drawings give every category they share the same color
SameColors(a, b) ==
  /\ \A i \in DOMAIN a.paths : \A j \in DOMAIN b.paths :
        a.paths[i].name = b.paths[j].name => a.paths[i].color = b.paths[j].color
  /\ \A i \in DOMAIN a.legend : \A j \in DOMAIN b.legend :
        a.legend[i].name = b.legend[j].name => a.legend[i].color = b.legend[j].color

\* the ordered category list of a drawing: its names in drawing order
Categories(drawing) == Unique(Names(drawing.paths))

---------------------------------------------------------------------------
(* C1. *)

\* C1: after the user changes the year selector appliedCountries is empty,
\* and once the filter effect has run filteredData is the records of the
\* newly selected year, all of them and in feed order, whatever was
\* applied before.
YearChangeResetsFilter ==
  lastEvent = "year" =>
    /\ appliedCountries = <<>>
    /\ "filter" \notin pending =>
         LET ofYear == SelectSeq(Rows(medalsData), LAMBDA d : d.Year = selectedYear)
         IN /\ Len(filteredData) = Len(ofYear)
            /\ \A i \in DOMAIN ofYear :
                 /\ filteredData[i].name = ofYear[i].Country
                 /\ filteredData[i].Gold = ofYear[i].Gold

\* C1 witness: the year was changed while a country filter was applied:
\* every year has two records, the surface still holds the one-path
\* drawing of the filter, and filteredData already holds both records.
YearChangedUnderFilter ==
  /\ lastEvent = "year" /\ pending = {"render"}
  /\ \A y \in Range(YearList) : Len(OfYear(Rows(medalsData), y)) = 2
  /\ Len(d3chart.paths) = 1
  /\ Len(filteredData) = 2

(* C2. *)

\* C2: a step that edits the staged selection changes neither
\* appliedCountries, filteredData, the drawing nor the pending effects;
\* appliedCountries changes only by Apply, to the staged value, or by the
\* year selector, to empty.
StagingIsInert ==
  [][/\ selectedCountries' # selectedCountries =>
          UNCHANGED <<appliedCountries, filteredData, d3chart, pending>>
     /\ appliedCountries' # appliedCountries =>
          \/ lastEvent' = "apply" /\ appliedCountries' = selectedCountries
          \/ lastEvent' = "year" /\ appliedCountries' = <<>>]_vars

\* C2 witness: a country is staged and not applied, and the chart still
\* draws every record of the year.
StagedNotApplied ==
  /\ lastEvent = "stage" /\ pending = {}
  /\ Len(selectedCountries) = 1 /\ appliedCountries = <<>>
  /\ Len(d3chart.paths) = 2
  /\ \E i \in DOMAIN d3chart.paths : d3chart.paths[i].name \notin Range(selectedCountries)

(* C3. *)

\* C3: once a non-empty feed has loaded and the year effect has run,
\* selectedYear is the greatest Year of the feed for as long as the user
\* has not used the year selector.
YearIsMostRecent ==
  (/\ mounted = Medal /\ Defined(medalsData) /\ Rows(medalsData) # <<>>
   /\ "year" \notin pending /\ ~yearPicked)
  => /\ \E i \in DOMAIN Rows(medalsData) : Rows(medalsData)[i].Year = selectedYear
     /\ \A i \in DOMAIN Rows(medalsData) : Rows(medalsData)[i].Year <= selectedYear

\* C3 witness: a feed of two years, the older listed first, after the
\* user has staged and applied countries but never picked a year.
MostRecentYearKept ==
  /\ mounted = Medal /\ Defined(medalsData) /\ ~yearPicked
  /\ lastEvent = "apply" /\ pending = {}
  /\ Len(Rows(medalsData)) >= 2
  /\ Rows(medalsData)[1].Year < selectedYear

(* C4. *)

\* C4: every applied country has a record in the selected year.
AppliedAreOffered ==
  \A i \in DOMAIN appliedCountries :
     \E k \in DOMAIN Rows(medalsData) :
        /\ Rows(medalsData)[k].Year = selectedYear
        /\ Rows(medalsData)[k].Country = appliedCountries[i]

(* C5. *)

\* C5: after a change of the filter state, once the effects have run, the
\* surface holds one path per row of filteredData and one legend entry per
\* name of it: nothing of an earlier drawing when filteredData is empty.
SurfaceShowsFilteredData ==
  (mounted = Medal /\ lastEvent \in {"year", "apply"} /\ pending = {})
  => /\ \A c \in Range(CountryNames) :
          CountNamed(d3chart.paths, c) = CountNamed(filteredData, c)
     /\ NameSet(d3chart.legend) = NameSet(filteredData)

(* C6. *)

NoEffectThrows == thrown = ""

(* C8. *)

\* C8: while the query reports isLoading or isError the message replaces
\* the chart, both surfaces are empty, and no stage of the pipeline has
\* run: nothing was transformed or drawn.
MessageReplacesChart ==
  (isLoading \/ isError)
  => /\ View \in {"loading", "error"}
     /\ d3chart = EmptySurface /\ svgRef = EmptySurface
     /\ filteredData = <<>> /\ keys = <<>>
     /\ executed = {}

\* C8 witness: the stream graph's query has failed and its effect has run.
FailedAndSettled ==
  mounted = Stream /\ isError /\ pending = {}

(* C9. *)

\* C9 as claimed: a drawing with the same set of categories as the first
\* drawing gives every country the same color.
ColorsFollowSet ==
  (kept.svg /\ Surface.svg /\ NameSet(kept.paths) = NameSet(Surface.paths))
  => SameColors(kept, Surface)

\* C9 amended: a drawing with the same ordered category list as the first
\* drawing gives every country the same color.
ColorsFollowOrder ==
  (kept.svg /\ Surface.svg /\ Categories(kept) = Categories(Surface))
  => SameColors(kept, Surface)

\* C9 witness: the line chart draws another year than the first drawing
\* did, with the same two countries in the same order.
SameOrderOtherYear ==
  /\ mounted = Medal /\ pending = {} /\ kept.svg
  /\ selectedYear # MostRecentYear(Rows(medalsData))
  /\ Len(Categories(d3chart)) = 2
  /\ Categories(kept) = Categories(d3chart)

(* C10. *)

\* C10: after 'All Countries' is chosen the stream graph draws one series
\* and one legend entry for every country of the feed.
AllShowsEveryCountry ==
  (mounted = Stream /\ lastEvent = "all" /\ pending = {} /\ thrown = "")
  => /\ NameSet(svgRef.paths) = Range(FeedCountries(Rows(gdpData)))
     /\ NameSet(svgRef.legend) = Range(FeedCountries(Rows(gdpData)))

============================================================================
